---- MODULE Spec2Model ----
(***************************************************************************)
(* Data Sweeper (src/app.py): a Streamlit script that is re-run from top   *)
(* to bottom on every user interaction.  st.session_state.df and           *)
(* st.session_state.logs survive between runs; everything else is          *)
(* recomputed by each run from the widgets' values.                        *)
(*                                                                         *)
(* One run ("pass") is modelled as the sequence of the script's sections:  *)
(*   load -> options -> dedupe -> missing -> types -> text -> validate ->  *)
(*   logs -> idle                                                          *)
(* An uncaught exception ends the run where it is raised (pc = "crashed"); *)
(* the session state written so far is kept.                               *)
(***************************************************************************)
EXTENDS Integers, Sequences, FiniteSets, TLC

VARIABLES
    df,                \* st.session_state.df
    logs,              \* st.session_state.logs
    pc,                \* the section of the script the run is at
    source,            \* what Step 1 read in this run (the local df of lines 45-63)
    cleaning_options,  \* the multiselect of line 77
    loop,              \* the columns the current for-loop still has to visit
    widget,            \* the widget the run read last: its key, value, and whether the user set it
    errors,            \* columns for which st.error was shown in this run
    report,            \* what Step 3 wrote with st.write in this run
    shown,             \* the sidebar's "Processing Logs" of this run
    writes,            \* number of stores to st.session_state.df by Step 2 in this run
    loaded,            \* number of load entries logged by Step 1 in this run
    vals,              \* input of the email check taken alone (SpecEmail)
    found              \* its result

vars == <<df, logs, pc, source, cleaning_options, loop, widget, errors, report,
          shown, writes, loaded, vals, found>>

-----------------------------------------------------------------------------
(* Bounds of the model *)

\* a new run starts only while the log holds fewer entries than this
MaxLog == 3
\* longest text value given to the email check taken alone
MaxLen == 6
\* longest log explored by the log specification
MaxEntries == 12
\* most rows of a table given to the deduplication taken alone
MaxRows == 4

-----------------------------------------------------------------------------
(* Characters and text values: a text value is a sequence of characters *)

Digits == {"0", "1", "2", "3", "4", "5", "6", "7", "8", "9"}
Lower == {"a", "b", "c", "d", "m", "o", "x", "y", "z"}
Upper == {"A", "B", "C", "D", "M", "O", "X", "Y", "Z"}
Space == {" ", "\n"}

\* \w of Python's re on str: letters, digits, underscore
IsWord(c) == c \in Digits \cup Lower \cup Upper \cup {"_"}

\* [\w\.-]
IsLocal(c) == IsWord(c) \/ c \in {".", "-"}

ToUpper(c) ==
    CASE c = "a" -> "A" [] c = "b" -> "B" [] c = "c" -> "C" [] c = "d" -> "D"
      [] c = "m" -> "M" [] c = "o" -> "O" [] c = "x" -> "X" [] c = "y" -> "Y"
      [] c = "z" -> "Z" [] OTHER -> c

ToLower(c) ==
    CASE c = "A" -> "a" [] c = "B" -> "b" [] c = "C" -> "c" [] c = "D" -> "d"
      [] c = "M" -> "m" [] c = "O" -> "o" [] c = "X" -> "x" [] c = "Y" -> "y"
      [] c = "Z" -> "z" [] OTHER -> c

DigitVal(c) ==
    CASE c = "0" -> 0 [] c = "1" -> 1 [] c = "2" -> 2 [] c = "3" -> 3 [] c = "4" -> 4
      [] c = "5" -> 5 [] c = "6" -> 6 [] c = "7" -> 7 [] c = "8" -> 8 [] c = "9" -> 9

\* code point order of the characters used, for sorting text values
Ord(c) ==
    CASE c = "\n" -> 10 [] c = " " -> 32 [] c = "!" -> 33 [] c = "-" -> 45
      [] c = "." -> 46 [] c \in Digits -> 48 + DigitVal(c) [] c = "@" -> 64
      [] c = "A" -> 65 [] c = "B" -> 66 [] c = "C" -> 67 [] c = "D" -> 68
      [] c = "M" -> 77 [] c = "O" -> 79 [] c = "X" -> 88 [] c = "Y" -> 89
      [] c = "Z" -> 90 [] c = "_" -> 95
      [] c = "a" -> 97 [] c = "b" -> 98 [] c = "c" -> 99 [] c = "d" -> 100
      [] c = "m" -> 109 [] c = "o" -> 111 [] c = "x" -> 120 [] c = "y" -> 121
      [] c = "z" -> 122

RECURSIVE StrLess(_, _)
StrLess(s, t) ==
    IF t = <<>> THEN FALSE
    ELSE IF s = <<>> THEN TRUE
    ELSE IF Ord(Head(s)) # Ord(Head(t)) THEN Ord(Head(s)) < Ord(Head(t))
    ELSE StrLess(Tail(s), Tail(t))

RECURSIVE LStrip(_)
LStrip(s) == IF s # <<>> /\ Head(s) \in Space THEN LStrip(Tail(s)) ELSE s

RECURSIVE RStrip(_)
RStrip(s) ==
    IF s # <<>> /\ s[Len(s)] \in Space THEN RStrip(SubSeq(s, 1, Len(s) - 1)) ELSE s

\* str.strip()
Strip(s) == RStrip(LStrip(s))

\* str.title(): a letter is upper-cased after a non-letter, lower-cased after a letter
Title(s) ==
    [i \in 1..Len(s) |->
        IF i > 1 /\ s[i - 1] \in Lower \cup Upper THEN ToLower(s[i]) ELSE ToUpper(s[i])]

-----------------------------------------------------------------------------
(* re.match(r'^[\w\.-]+@[\w\.-]+\.\w+$', s), by backtracking as re does *)

\* \w+$ from position i: $ matches at the end and before a final newline
RECURSIVE MatchTld(_, _, _)
MatchTld(s, i, n) ==
    IF i > Len(s) THEN n > 0
    ELSE IF IsWord(s[i]) THEN MatchTld(s, i + 1, n + 1)
    ELSE n > 0 /\ s[i] = "\n" /\ i = Len(s)

\* [\w\.-]+\.\w+$ from position i, n characters of the class taken so far
RECURSIVE MatchDomain(_, _, _)
MatchDomain(s, i, n) ==
    IF i > Len(s) THEN FALSE
    ELSE \/ n > 0 /\ s[i] = "." /\ MatchTld(s, i + 1, 0)
         \/ IsLocal(s[i]) /\ MatchDomain(s, i + 1, n + 1)

\* [\w\.-]+@ from position i, then the domain
RECURSIVE MatchLocalPart(_, _, _)
MatchLocalPart(s, i, n) ==
    IF i > Len(s) THEN FALSE
    ELSE IF s[i] = "@" THEN n > 0 /\ MatchDomain(s, i + 1, 0)
    ELSE IsLocal(s[i]) /\ MatchLocalPart(s, i + 1, n + 1)

\* the pattern without its final $
EmailMatchNoEnd(s) == \E n \in 1..Len(s) : MatchLocalPart(SubSeq(s, 1, n), 1, 0)

EmailMatch(s) == MatchLocalPart(s, 1, 0)

-----------------------------------------------------------------------------
(* Cells.  A cell is a record [k, n, d, s]:                                *)
(*   k = "null"  NaN / None / NaT / <NA>                                   *)
(*   k = "num"   the number n/d in lowest terms, d > 0                     *)
(*   k = "str"   the text s                                                *)
(*   k = "repr"  the text that str() gives for the number n/d              *)
(*   k = "ts"    the timestamp obtained from the number n/d or the text s  *)

Null == [k |-> "null", n |-> 0, d |-> 1, s |-> <<>>]

Abs(x) == IF x < 0 THEN -x ELSE x

RECURSIVE Gcd(_, _)
Gcd(a, b) == IF b = 0 THEN a ELSE Gcd(b, a % b)

Num(a, b) ==
    LET g == Gcd(Abs(a), b)
    IN  [k |-> "num", n |-> a \div g, d |-> b \div g, s |-> <<>>]

IntCell(a) == Num(a, 1)

Str(t) == [k |-> "str", n |-> 0, d |-> 1, s |-> t]

isna(c) == c.k = "null"

NumLess(a, b) == a.n * b.d < b.n * a.d

NumLeq(a, b) == a.n * b.d <= b.n * a.d

\* the order pandas sorts the values of a column in (numbers, or text)
CellLess(a, b) ==
    IF a.k = "num" /\ b.k = "num" THEN NumLess(a, b)
    ELSE IF a.k = "str" /\ b.k = "str" THEN StrLess(a.s, b.s)
    ELSE a.k = "num" /\ b.k = "str"

-----------------------------------------------------------------------------
(* Tables.  A table is [none, dtypes, rows]: none is TRUE for "no table",   *)
(* dtypes[j] is the dtype of column j, rows is the sequence of rows, each   *)
(* a tuple of cells.                                                        *)

NoTable == [none |-> TRUE, dtypes |-> <<>>, rows |-> <<>>]

Table(dtypes, rows) == [none |-> FALSE, dtypes |-> dtypes, rows |-> rows]

ColNames == <<"n", "s">>

Cols(t) == 1..Len(t.dtypes)

Column(t, j) == [i \in 1..Len(t.rows) |-> t.rows[i][j]]

\* df[col] = values, with the column's new dtype
SetColumn(t, j, values, dtype) ==
    [t EXCEPT !.dtypes[j] = dtype,
              !.rows = [i \in 1..Len(t.rows) |-> [t.rows[i] EXCEPT ![j] = values[i]]]]

NumericDtypes == {"int64", "float64"}

RECURSIVE Filter(_, _)
\* the elements of s at the positions in keep, in order
Filter(s, keep) ==
    IF s = <<>> THEN <<>>
    ELSE LET rest == Filter(SubSeq(s, 1, Len(s) - 1), keep)
         IN  IF Len(s) \in keep THEN Append(rest, s[Len(s)]) ELSE rest

NonNull(col) == Filter(col, {i \in 1..Len(col) : ~isna(col[i])})

\* df.isna().sum() of one column
isna_sum(col) == Cardinality({i \in 1..Len(col) : isna(col[i])})

-----------------------------------------------------------------------------
(* DataFrame.duplicated / drop_duplicates (keep='first'; nulls equal nulls) *)

RECURSIVE duplicated_from(_, _, _)
\* positions of the rows, from i on, that equal a row seen before
duplicated_from(rows, i, seen) ==
    IF i > Len(rows) THEN {}
    ELSE IF rows[i] \in seen THEN {i} \cup duplicated_from(rows, i + 1, seen)
    ELSE duplicated_from(rows, i + 1, seen \cup {rows[i]})

duplicated(t) == duplicated_from(t.rows, 1, {})

\* keep='last' instead of the default keep='first'
drop_duplicates_keep_last(t) ==
    LET n == Len(t.rows)
        later == {i \in 1..n : \E j \in (i + 1)..n : t.rows[j] = t.rows[i]}
    IN  [t EXCEPT !.rows = Filter(t.rows, (1..n) \ later)]

drop_duplicates(t) ==
    [t EXCEPT !.rows = Filter(t.rows, (1..Len(t.rows)) \ duplicated(t))]

\* df.dropna(subset=[col])
dropna(t, j) ==
    [t EXCEPT !.rows = Filter(t.rows, {i \in 1..Len(t.rows) : ~isna(t.rows[i][j])})]

\* Series.fillna(value): a NaN value fills nothing
fillna(col, value) == [i \in 1..Len(col) |-> IF isna(col[i]) THEN value ELSE col[i]]

-----------------------------------------------------------------------------
(* Series.mean / median / mode on the non-null values *)

RECURSIVE SumNum(_)
SumNum(s) ==
    IF s = <<>> THEN IntCell(0)
    ELSE LET r == SumNum(Tail(s))
         IN  Num(Head(s).n * r.d + r.n * Head(s).d, Head(s).d * r.d)

\* the values of s in ascending order
RECURSIVE Sorted(_)
Sorted(s) ==
    IF s = <<>> THEN <<>>
    ELSE LET m == CHOOSE i \in 1..Len(s) :
                    /\ \A j \in 1..Len(s) : ~CellLess(s[j], s[i])
                    /\ \A j \in 1..(i - 1) : CellLess(s[i], s[j])
         IN  <<s[m]>> \o Sorted(Filter(s, (1..Len(s)) \ {m}))

NumMean(xs) ==
    IF xs = <<>> THEN Null
    ELSE LET t == SumNum(xs) IN Num(t.n, t.d * Len(xs))

NumMedian(xs) ==
    IF xs = <<>> THEN Null
    ELSE LET o == Sorted(xs)
             h == Len(xs) \div 2
         IN  IF Len(xs) % 2 = 1 THEN o[h + 1]
             ELSE LET t == SumNum(<<o[h], o[h + 1]>>) IN Num(t.n, t.d * 2)

Count(xs, v) == Cardinality({i \in 1..Len(xs) : xs[i] = v})

\* Series.mode(): the most frequent values, sorted; empty for no values
Mode(xs) ==
    LET top == {i \in 1..Len(xs) : \A j \in 1..Len(xs) : Count(xs, xs[j]) <= Count(xs, xs[i])}
        firsts == {i \in top : \A j \in 1..(i - 1) : xs[j] # xs[i]}
    IN  Sorted(Filter(xs, firsts))

-----------------------------------------------------------------------------
(* Reading text as a number or a date *)

AllDigits(s) == s # <<>> /\ \A i \in 1..Len(s) : s[i] \in Digits

RECURSIVE DigitsVal(_)
DigitsVal(s) ==
    IF s = <<>> THEN 0 ELSE 10 * DigitsVal(SubSeq(s, 1, Len(s) - 1)) + DigitVal(s[Len(s)])

RECURSIVE Pow10(_)
Pow10(e) == IF e = 0 THEN 1 ELSE 10 * Pow10(e - 1)

\* digits with at most one '.', at least one digit
IsUnsigned(s) ==
    \/ AllDigits(s)
    \/ \E p \in 1..Len(s) :
          /\ s[p] = "."
          /\ Len(s) > 1
          /\ \A i \in (1..Len(s)) \ {p} : s[i] \in Digits

UnsignedVal(s) ==
    IF AllDigits(s) THEN IntCell(DigitsVal(s))
    ELSE LET p == CHOOSE q \in 1..Len(s) : s[q] = "."
             a == SubSeq(s, 1, p - 1)
             b == SubSeq(s, p + 1, Len(s))
         IN  Num(DigitsVal(a) * Pow10(Len(b)) + DigitsVal(b), Pow10(Len(b)))

IsNumberText(s) ==
    IF s # <<>> /\ Head(s) = "-" THEN IsUnsigned(Tail(s)) ELSE IsUnsigned(s)

NumberOf(s) ==
    IF Head(s) = "-"
    THEN LET v == UnsignedVal(Tail(s)) IN Num(-v.n, v.d)
    ELSE UnsignedVal(s)

\* pd.to_numeric on one cell of a text column.  A plain number is read; text that
\* is no number raises.  Whether padded or empty text is read (as the number, as
\* NaN) or raises depends on the parser in use: both are possible.
NumericMayFail(c) == c.k = "str" /\ ~IsNumberText(c.s)

NumericMayRead(c) == c.k = "str" => (Strip(c.s) = <<>> \/ IsNumberText(Strip(c.s)))

NumericRead(c) ==
    IF c.k = "str"
    THEN IF IsNumberText(Strip(c.s)) THEN NumberOf(Strip(c.s)) ELSE Null
    ELSE IF c.k = "repr" THEN Num(c.n, c.d)
    ELSE c

\* YYYY-MM-DD with a month 01..12 and a day 01..28
IsIsoDate(s) ==
    /\ Len(s) = 10
    /\ s[5] = "-" /\ s[8] = "-"
    /\ \A i \in {1, 2, 3, 4, 6, 7, 9, 10} : s[i] \in Digits
    /\ DigitsVal(SubSeq(s, 6, 7)) \in 1..12
    /\ DigitsVal(SubSeq(s, 9, 10)) \in 1..28

\* pd.to_datetime on one cell of a text column.  An ISO date is read; text holding
\* a character no date format has raises; for any other text the outcome depends
\* on the date parser in use: both are possible.
DatetimeMayFail(c) == c.k = "str" /\ ~IsIsoDate(c.s)

DatetimeMayRead(c) == c.k = "str" => \A i \in 1..Len(c.s) : c.s[i] \notin {"@", "!", "_"}

DatetimeRead(c) == IF isna(c) THEN Null ELSE [c EXCEPT !.k = "ts"]

\* astype('category') keeps the values
CategoryRead(c) == c

\* astype('string'): a number becomes its text
StringRead(c) == IF c.k = "num" THEN [c EXCEPT !.k = "repr"] ELSE c

\* the outcomes of converting a column cell by cell: the exception, when some cell
\* may fail; the converted column, when every cell may be read
ColOutcomes(col, mayfail, mayread, values, dtype) ==
    (IF mayfail THEN {[raised |-> TRUE, values |-> col, dtype |-> dtype]} ELSE {})
    \cup
    (IF mayread THEN {[raised |-> FALSE, values |-> values, dtype |-> dtype]} ELSE {})

\* the dtype pd.to_numeric gives: int64 for whole numbers without NaN
NumericDtypeOf(values) ==
    IF \A i \in 1..Len(values) : values[i].k = "num" /\ values[i].d = 1
    THEN "int64" ELSE "float64"

\* lines 136-143: the right-hand side of the assignment for new_type
ConvertOutcomes(col, dtype, new_type) ==
    LET I == 1..Len(col) IN
    CASE new_type = "Numeric" ->
            IF dtype \in NumericDtypes
            THEN {[raised |-> FALSE, values |-> col, dtype |-> dtype]}
            ELSE LET values == [i \in I |-> NumericRead(col[i])]
                 IN  ColOutcomes(col, \E i \in I : NumericMayFail(col[i]),
                                 \A i \in I : NumericMayRead(col[i]),
                                 values, NumericDtypeOf(values))
      [] new_type = "Datetime" ->
            ColOutcomes(col, \E i \in I : DatetimeMayFail(col[i]),
                        \A i \in I : DatetimeMayRead(col[i]),
                        [i \in I |-> DatetimeRead(col[i])], "datetime64[ns]")
      [] new_type = "Category" ->
            ColOutcomes(col, FALSE, TRUE, [i \in I |-> CategoryRead(col[i])], "category")
      [] new_type = "String" ->
            ColOutcomes(col, FALSE, TRUE, [i \in I |-> StringRead(col[i])], "string")

TypeOptions == {"Keep as is", "Numeric", "Datetime", "Category", "String"}

\* The model follows a column through its first conversion: for a column that is
\* already category, datetime or string the selectbox is left on "Keep as is".
TypeChoices(dtype) ==
    IF dtype \in NumericDtypes \cup {"object"} THEN TypeOptions ELSE {"Keep as is"}

-----------------------------------------------------------------------------
(* lines 109-114: the fill value of a treatment, or the exception it raises *)

TextOf(xs) == [i \in 1..Len(xs) |-> xs[i].s]

RECURSIVE Concat(_)
Concat(ss) == IF ss = <<>> THEN <<>> ELSE Head(ss) \o Concat(Tail(ss))

Raised == [raised |-> TRUE, value |-> Null]

Value(v) == [raised |-> FALSE, value |-> v]

\* Series.mean(): on text it raises TypeError, except that older pandas sums the
\* text first and returns a number when the concatenation reads as one
MeanOutcomes(col, dtype) ==
    LET xs == NonNull(col)
    IN  IF dtype \in NumericDtypes THEN {Value(NumMean(xs))}
        ELSE IF xs = <<>> THEN {Value(Null), Raised}
        ELSE {Raised} \cup
             (IF Len(xs) = Len(col) /\ AllDigits(Concat(TextOf(xs)))
              THEN {Value(Num(DigitsVal(Concat(TextOf(xs))), Len(xs)))} ELSE {})

\* Series.median(): on text it raises TypeError, except that older pandas casts
\* the values to float first
MedianOutcomes(col, dtype) ==
    LET xs == NonNull(col)
    IN  IF dtype \in NumericDtypes THEN {Value(NumMedian(xs))}
        ELSE IF xs = <<>> THEN {Value(Null), Raised}
        ELSE {Raised} \cup
             (IF \A i \in 1..Len(xs) : IsNumberText(xs[i].s)
              THEN {Value(NumMedian([i \in 1..Len(xs) |-> NumberOf(xs[i].s)]))} ELSE {})

\* Series.mode()[0]: KeyError when the column has no value
ModeOutcomes(col) ==
    LET xs == NonNull(col)
    IN  IF xs = <<>> THEN {Raised} ELSE {Value(Mode(xs)[1])}

Treatments == {"Drop rows", "Fill with mean", "Fill with median", "Fill with mode"}

FillOutcomes(col, dtype, treatment) ==
    CASE treatment = "Fill with mean" -> MeanOutcomes(col, dtype)
      [] treatment = "Fill with median" -> MedianOutcomes(col, dtype)
      [] treatment = "Fill with mode" -> ModeOutcomes(col)

\* The model fills number and text columns; for a column that is already
\* category, datetime or string the selectbox is left on "Drop rows".
TreatmentChoices(dtype) ==
    IF dtype \in NumericDtypes \cup {"object"} THEN Treatments ELSE {"Drop rows"}

-----------------------------------------------------------------------------
(* The data sources of Step 1.  The sample datasets are fetched from fixed  *)
(* URLs and an uploaded file is whatever the user has; small tables of two  *)
(* columns, named ColNames[1] and ColNames[2], stand for their contents.    *)

S(t) == Str(t)

N(a) == IntCell(a)

SampleNames == {"Titanic", "Iris", "Tips"}

FileNames == {"data.csv", "broken.csv"}

\* pd.read_csv(<url of the sample>)
SampleTable(name) ==
    CASE name = "Titanic" ->
            Table(<<"float64", "object">>,
                  << <<N(1), S(<<"a", " ", "b">>)>>,
                     <<Null, S(<<" ", "x", " ">>)>>,
                     <<N(1), S(<<"a", " ", "b">>)>> >>)
      [] name = "Iris" ->
            Table(<<"float64", "object">>,
                  << <<Null, S(<<"1">>)>>,
                     <<Null, Null>> >>)
      [] name = "Tips" ->
            Table(<<"int64", "object">>,
                  << <<N(5), S(<<"a", "@", "a", ".", "a">>)>>,
                     <<N(150), S(<<"b", "a", "d">>)>> >>)

\* pd.read_csv / read_excel / read_json of the uploaded file: a table, or an exception
FileReadable(name) == name = "data.csv"

FileTable(name) ==
    Table(<<"object", "int64">>,
          << <<Null, N(2)>>,
             <<S(<<"2", "0", "2", "0", "-", "0", "1", "-", "0", "2">>), N(0 - 1)>>,
             <<Null, N(2)>> >>)

SourceTable(name) == IF name \in SampleNames THEN SampleTable(name) ELSE FileTable(name)

-----------------------------------------------------------------------------
(* The action log *)

\* the message of one entry; the timestamp that log_action puts in front of it is
\* the wall clock at the call and is left out
Entry(msg, col, from, to, value) ==
    [msg |-> msg, col |-> col, from |-> from, to |-> to, value |-> value]

LoadMsgs == {"Uploaded file", "Loaded sample dataset"}

\* lines 16-18
log_action(log, action) == Append(log, action)

\* log[-n:]
LastN(log, n) == IF Len(log) <= n THEN log ELSE SubSeq(log, Len(log) - n + 1, Len(log))

RECURSIVE Reversed(_)
Reversed(s) == IF s = <<>> THEN <<>> ELSE Append(Reversed(Tail(s)), Head(s))

\* the number of entries the sidebar shows
LogsShown == 10

\* logs[:10] instead of logs[-10:]
LastLogsOldest(log) ==
    Reversed(IF Len(log) <= LogsShown THEN log ELSE SubSeq(log, 1, LogsShown))

\* line 205: reversed(st.session_state.logs[-10:])
LastLogs(log) == Reversed(LastN(log, LogsShown))

-----------------------------------------------------------------------------
(* Widgets *)

NoWidget == [key |-> "", col |-> "", value |-> "", set |-> FALSE]

\* st.selectbox / st.checkbox: the value the user set, else the default
Widget(key, col, value, set) == [key |-> key, col |-> col, value |-> value, set |-> set]

NoReport == [col |-> "", email |-> <<>>, range |-> <<>>, min |-> 0, max |-> 0]

CleaningOps == {"Remove Duplicates", "Handle Missing Values",
                "Standardize Data Types", "Clean Text Data"}

\* the Minimum / Maximum allowed value the user may enter (defaults 0 and 100)
BoundInputs == {<<0, 100>>, <<2, 5>>, <<100, 0>>}

-----------------------------------------------------------------------------
(* The run *)

Init ==
    /\ df = NoTable
    /\ logs = <<>>
    /\ pc = "idle"
    /\ source = ""
    /\ cleaning_options = {}
    /\ loop = <<>>
    /\ widget = NoWidget
    /\ errors = {}
    /\ report = NoReport
    /\ shown = <<>>
    /\ writes = 0
    /\ loaded = 0
    /\ vals = <<>>
    /\ found = 0

\* a rerun starts the script again: its locals and its page are new
Rerun ==
    /\ pc \in {"idle", "crashed"}
    /\ Len(logs) < MaxLog
    /\ cleaning_options' = {}
    /\ loop' = <<>>
    /\ widget' = NoWidget
    /\ report' = NoReport
    /\ shown' = <<>>
    /\ writes' = 0
    /\ UNCHANGED <<vals, found>>

\* lines 37-42: "Upload File" with no file in the uploader
NoFile ==
    /\ Rerun
    /\ source' = ""
    /\ errors' = {}
    /\ loaded' = 0
    /\ pc' = "options"
    /\ UNCHANGED <<df, logs>>

\* lines 42-55: an uploaded file; an exception of the reader is caught and shown
UploadFile ==
    /\ Rerun
    /\ \E name \in FileNames :
          /\ source' = name
          /\ IF FileReadable(name)
             THEN /\ df' = SourceTable(name)
                  /\ logs' = log_action(logs, Entry("Uploaded file", name, "", "", Null))
                  /\ loaded' = 1
                  /\ errors' = {}
             ELSE /\ errors' = {name}
                  /\ loaded' = 0
                  /\ UNCHANGED <<df, logs>>
    /\ pc' = "options"

\* the dataset is loaded only while the session has no table
SampleDataOnce ==
    /\ Rerun
    /\ errors' = {}
    /\ \E name \in SampleNames, fetched \in BOOLEAN :
          /\ source' = name
          /\ IF fetched
             THEN /\ df' = IF df.none THEN SourceTable(name) ELSE df
                  /\ logs' = log_action(logs, Entry("Loaded sample dataset", name, "", "", Null))
                  /\ loaded' = 1
                  /\ pc' = "options"
             ELSE /\ loaded' = 0
                  /\ pc' = "crashed"
                  /\ UNCHANGED <<df, logs>>

\* lines 56-66: a sample dataset; a failed download is not caught
SampleData ==
    /\ Rerun
    /\ errors' = {}
    /\ \E name \in SampleNames, fetched \in BOOLEAN :
          /\ source' = name
          /\ IF fetched
             THEN /\ df' = SourceTable(name)
                  /\ logs' = log_action(logs, Entry("Loaded sample dataset", name, "", "", Null))
                  /\ loaded' = 1
                  /\ pc' = "options"
             ELSE /\ loaded' = 0
                  /\ pc' = "crashed"
                  /\ UNCHANGED <<df, logs>>

\* lines 69-81: the preview and the multiselect, when there is a table
SelectCleaning ==
    /\ pc = "options"
    /\ IF df.none
       THEN /\ pc' = "logs"
            /\ UNCHANGED cleaning_options
       ELSE /\ pc' = "dedupe"
            /\ \E chosen \in SUBSET CleaningOps : cleaning_options' = chosen
    /\ UNCHANGED <<df, logs, source, loop, widget, errors, report, shown, writes, loaded,
                   vals, found>>

\* log_action outside the checkbox's if: logged whether confirmed or not
RemoveDuplicatesAlwaysLogged ==
    /\ pc = "dedupe"
    /\ pc' = "missing"
    /\ LET duplicates == Cardinality(duplicated(df))
       IN  IF "Remove Duplicates" \in cleaning_options /\ duplicates > 0
           THEN \E checked \in BOOLEAN :
                   /\ widget' = Widget("Remove duplicates?", "", "", checked)
                   /\ logs' = log_action(logs,
                            Entry("Removed duplicate rows", "", "", "", N(duplicates)))
                   /\ IF checked
                      THEN /\ df' = drop_duplicates(df)
                           /\ writes' = writes + 1
                      ELSE UNCHANGED <<df, writes>>
           ELSE UNCHANGED <<df, logs, writes, widget>>
    /\ UNCHANGED <<source, cleaning_options, loop, errors, report, shown, loaded, vals, found>>

\* lines 84-89
RemoveDuplicates ==
    /\ pc = "dedupe"
    /\ pc' = "missing"
    /\ LET duplicates == Cardinality(duplicated(df))
       IN  IF "Remove Duplicates" \in cleaning_options /\ duplicates > 0
           THEN \E checked \in BOOLEAN :
                   /\ widget' = Widget("Remove duplicates?", "", "", checked)
                   /\ IF checked
                      THEN /\ df' = drop_duplicates(df)
                           /\ logs' = log_action(logs,
                                    Entry("Removed duplicate rows", "", "", "", N(duplicates)))
                           /\ writes' = writes + 1
                      ELSE UNCHANGED <<df, logs, writes>>
           ELSE UNCHANGED <<df, logs, writes, widget>>
    /\ UNCHANGED <<source, cleaning_options, loop, errors, report, shown, loaded, vals, found>>

\* the columns js of t, in column order
ColumnsWhere(t, js) == Filter([j \in Cols(t) |-> j], js)

\* lines 92-98: missing = df.isna().sum(); the loop runs over missing[missing > 0]
MissingValues ==
    /\ pc = "missing"
    /\ LET missing == {j \in Cols(df) : isna_sum(Column(df, j)) > 0}
           todo == IF "Handle Missing Values" \in cleaning_options
                   THEN ColumnsWhere(df, missing) ELSE <<>>
       IN  /\ loop' = todo
           /\ pc' = IF todo = <<>> THEN "types" ELSE "missing_col"
    /\ UNCHANGED <<df, logs, source, cleaning_options, widget, errors, report, shown,
                   writes, loaded, vals, found>>

\* where the run goes when a for-loop has visited the head of `loop`
AfterLoop(again, next) == IF Tail(loop) = <<>> THEN next ELSE again

\* lines 98-117, one iteration: the selectbox shows "Drop rows" until the user
\* picks another treatment
MissingColumn ==
    /\ pc = "missing_col"
    /\ loop' = Tail(loop)
    /\ LET j == Head(loop)
           col == Column(df, j)
       IN  \E choice \in {"(not set)"} \cup TreatmentChoices(df.dtypes[j]) :
             LET treatment == IF choice = "(not set)" THEN "Drop rows" ELSE choice
             IN  /\ widget' = Widget("missing", ColNames[j], treatment, choice # "(not set)")
                 /\ IF treatment = "Drop rows"
                    THEN /\ df' = dropna(df, j)
                         /\ logs' = log_action(logs,
                                  Entry("Dropped rows with missing", ColNames[j], "", "", Null))
                         /\ writes' = writes + 1
                         /\ pc' = AfterLoop("missing_col", "types")
                    ELSE \E o \in FillOutcomes(col, df.dtypes[j], treatment) :
                            IF o.raised
                            THEN /\ pc' = "crashed"
                                 /\ UNCHANGED <<df, logs, writes>>
                            ELSE /\ df' = SetColumn(df, j, fillna(col, o.value), df.dtypes[j])
                                 /\ logs' = log_action(logs,
                                          Entry("Filled missing", ColNames[j], "", "", o.value))
                                 /\ writes' = writes + 1
                                 /\ pc' = AfterLoop("missing_col", "types")
    /\ UNCHANGED <<source, cleaning_options, errors, report, shown, loaded, vals, found>>

\* lines 120-126
StandardizeTypes ==
    /\ pc = "types"
    /\ LET todo == IF "Standardize Data Types" \in cleaning_options
                   THEN [j \in Cols(df) |-> j] ELSE <<>>
       IN  /\ loop' = todo
           /\ pc' = IF todo = <<>> THEN "text" ELSE "types_col"
    /\ UNCHANGED <<df, logs, source, cleaning_options, widget, errors, report, shown,
                   writes, loaded, vals, found>>

\* log_action placed in a finally clause: the failed conversion is logged too
ConversionFailedLogged(name) ==
    /\ errors' = errors \cup {name}
    /\ logs' = log_action(logs, Entry("Converted", name, "", "", Null))
    /\ UNCHANGED <<df, writes>>

\* lines 146-147: the exception is shown; nothing was assigned, nothing is logged
ConversionFailed(name) ==
    /\ errors' = errors \cup {name}
    /\ UNCHANGED <<df, logs, writes>>

\* lines 126-147, one iteration
ConvertColumn ==
    /\ pc = "types_col"
    /\ loop' = Tail(loop)
    /\ pc' = AfterLoop("types_col", "text")
    /\ LET j == Head(loop)
           current_type == df.dtypes[j]
       IN  \E new_type \in TypeChoices(current_type) :
             /\ widget' = Widget("dtype", ColNames[j], new_type, new_type # "Keep as is")
             /\ IF new_type = "Keep as is"
                THEN UNCHANGED <<df, logs, writes, errors>>
                ELSE \E o \in ConvertOutcomes(Column(df, j), current_type, new_type) :
                        IF o.raised
                        THEN ConversionFailed(ColNames[j])
                        ELSE /\ df' = SetColumn(df, j, o.values, o.dtype)
                             /\ logs' = log_action(logs,
                                      Entry("Converted", ColNames[j], current_type, new_type, Null))
                             /\ writes' = writes + 1
                             /\ UNCHANGED errors
    /\ UNCHANGED <<source, cleaning_options, report, shown, loaded, vals, found>>

\* df.select_dtypes(include='object').columns
ObjectColumns(t) ==
    ColumnsWhere(t, {j \in Cols(t) : t.dtypes[j] = "object"})

\* lines 150-152
CleanText ==
    /\ pc = "text"
    /\ LET todo == IF "Clean Text Data" \in cleaning_options THEN ObjectColumns(df) ELSE <<>>
       IN  /\ loop' = todo
           /\ pc' = IF todo = <<>> THEN "validate" ELSE "text_col"
    /\ UNCHANGED <<df, logs, source, cleaning_options, widget, errors, report, shown,
                   writes, loaded, vals, found>>

\* Series.str: AttributeError unless the values are text (or all missing)
StrAccessor(col) ==
    LET xs == NonNull(col) IN xs = <<>> \/ \E i \in 1..Len(xs) : xs[i].k = "str"

\* a Series.str method on one cell: a value that is no text gives NaN
str_strip(col) ==
    [i \in 1..Len(col) |-> IF col[i].k = "str" THEN Str(Strip(col[i].s)) ELSE Null]

str_title(col) ==
    [i \in 1..Len(col) |-> IF col[i].k = "str" THEN Str(Title(col[i].s)) ELSE Null]

\* lines 154-162, one iteration: the two checkboxes of a text column
CleanTextColumn ==
    /\ pc = "text_col"
    /\ loop' = Tail(loop)
    /\ LET j == Head(loop)
           name == ColNames[j]
       IN  \E trim \in BOOLEAN, case \in BOOLEAN :
             LET trimmed == SetColumn(df, j, str_strip(Column(df, j)), "object")
                 df1 == IF trim THEN trimmed ELSE df
                 logs1 == IF trim
                          THEN log_action(logs, Entry("Trimmed whitespace in", name, "", "", Null))
                          ELSE logs
                 n1 == IF trim THEN 1 ELSE 0
             IN  IF trim /\ ~StrAccessor(Column(df, j))
                 THEN /\ widget' = Widget("trim", name, "", trim)
                      /\ pc' = "crashed"
                      /\ UNCHANGED <<df, logs, writes>>
                 ELSE /\ widget' = Widget("case", name, "", case)
                      /\ IF ~case
                         THEN /\ df' = df1
                              /\ logs' = logs1
                              /\ writes' = writes + n1
                              /\ pc' = AfterLoop("text_col", "validate")
                         ELSE IF ~StrAccessor(Column(df1, j))
                         THEN /\ df' = df1
                              /\ logs' = logs1
                              /\ writes' = writes + n1
                              /\ pc' = "crashed"
                         ELSE /\ df' = SetColumn(df1, j, str_title(Column(df1, j)), "object")
                              /\ logs' = log_action(logs1,
                                       Entry("Standardized case in", name, "", "", Null))
                              /\ writes' = writes + n1 + 1
                              /\ pc' = AfterLoop("text_col", "validate")
    /\ UNCHANGED <<source, cleaning_options, errors, report, shown, loaded, vals, found>>

-----------------------------------------------------------------------------
(* Step 3: validation *)

\* lines 171-173: (~col.str.match(email_pattern, na=False)).sum()
InvalidEmails(col) ==
    Cardinality({i \in 1..Len(col) : ~(col[i].k = "str" /\ EmailMatch(col[i].s))})

\* Series.between(left, right) on one cell: inclusive, False for NaN
between(c, left, right) ==
    c.k = "num" /\ NumLeq(IntCell(left), c) /\ NumLeq(c, IntCell(right))

\* line 178-179: (~col.between(min_val, max_val)).sum()
InvalidValues(col, min_val, max_val) ==
    Cardinality({i \in 1..Len(col) : ~between(col[i], min_val, max_val)})

\* np.issubdtype(dtype, np.number): TypeError for a dtype numpy does not know
IsSubdtypeRaises(dtype) == dtype \in {"category", "string"}

\* lines 166-179.  Step 4 (lines 181-201) only reads the table and is not modelled.
Validation ==
    /\ pc = "validate"
    /\ \E j \in Cols(df) :
          LET col == Column(df, j)
              dtype == df.dtypes[j]
          IN  \E checked \in (IF dtype = "object" THEN BOOLEAN ELSE {FALSE}) :
              \E b \in (IF dtype \in NumericDtypes THEN BoundInputs ELSE {<<0, 100>>}) :
                 IF checked /\ ~StrAccessor(col)
                 THEN /\ report' = [NoReport EXCEPT !.col = ColNames[j]]
                      /\ pc' = "crashed"
                 ELSE LET email == IF checked THEN <<InvalidEmails(col)>> ELSE <<>>
                      IN  IF IsSubdtypeRaises(dtype)
                          THEN /\ report' = [NoReport EXCEPT !.col = ColNames[j], !.email = email]
                               /\ pc' = "crashed"
                          ELSE /\ report' =
                                    [col |-> ColNames[j],
                                     email |-> email,
                                     range |-> IF dtype \in NumericDtypes
                                               THEN <<InvalidValues(col, b[1], b[2])>> ELSE <<>>,
                                     min |-> b[1],
                                     max |-> b[2]]
                               /\ pc' = "logs"
    /\ UNCHANGED <<df, logs, source, cleaning_options, loop, widget, errors, shown,
                   writes, loaded, vals, found>>

\* lines 203-206
ShowLogs ==
    /\ pc = "logs"
    /\ shown' = LastLogs(logs)
    /\ pc' = "idle"
    /\ UNCHANGED <<df, logs, source, cleaning_options, loop, widget, errors, report,
                   writes, loaded, vals, found>>

Next ==
    \/ NoFile
    \/ UploadFile
    \/ SampleData
    \/ SelectCleaning
    \/ RemoveDuplicates
    \/ MissingValues
    \/ MissingColumn
    \/ StandardizeTypes
    \/ ConvertColumn
    \/ CleanText
    \/ CleanTextColumn
    \/ Validation
    \/ ShowLogs

Spec == Init /\ [][Next]_vars

-----------------------------------------------------------------------------
(* The action log taken alone: any sequence of log_action calls, each       *)
(* followed by more calls or by the sidebar being drawn.                    *)

LogInputs == {Entry("Uploaded file", "data.csv", "", "", Null),
              Entry("Trimmed whitespace in", "s", "", "", Null)}

\* lines 16-18, called by some operation of the run
LogAction ==
    /\ pc = "idle"
    /\ Len(logs) < MaxEntries
    /\ \E action \in LogInputs : logs' = log_action(logs, action)
    /\ pc' \in {"idle", "logs"}
    /\ UNCHANGED <<df, source, cleaning_options, loop, widget, errors, report, shown,
                   writes, loaded, vals, found>>

NextLog == LogAction \/ ShowLogs

SpecLog == Init /\ [][NextLog]_vars

-----------------------------------------------------------------------------
(* The deduplication taken alone: the session holds any uploaded table of   *)
(* up to MaxRows rows and the user has selected "Remove Duplicates".        *)

DedupeRows == {<<N(1), S(<<"a">>)>>, <<Null, S(<<"a">>)>>, <<Null, Null>>}

DedupeTables ==
    {Table(<<"float64", "object">>, rows) :
        rows \in UNION {[1..m -> DedupeRows] : m \in 0..MaxRows}}

InitDedupe ==
    /\ df \in DedupeTables
    /\ logs = <<Entry("Uploaded file", "data.csv", "", "", Null)>>
    /\ pc = "dedupe"
    /\ source = "data.csv"
    /\ cleaning_options = {"Remove Duplicates"}
    /\ loop = <<>>
    /\ widget = NoWidget
    /\ errors = {}
    /\ report = NoReport
    /\ shown = <<>>
    /\ writes = 0
    /\ loaded = 1
    /\ vals = <<>>
    /\ found = 0

NextDedupe == RemoveDuplicates

SpecDedupe == InitDedupe /\ [][NextDedupe]_vars

-----------------------------------------------------------------------------
(* The email check taken alone, on a column of text values *)

EmailChars == {"a", "@", ".", "-", " ", "\n", "!"}

Texts(n) == UNION {[1..m -> EmailChars] : m \in 0..n}

\* ["a@b.com", "bad", "", "x@y.z"]
ExampleEmails ==
    << S(<<"a", "@", "b", ".", "c", "o", "m">>), S(<<"b", "a", "d">>), S(<<>>),
       S(<<"x", "@", "y", ".", "z">>) >>

InitEmail ==
    /\ df = NoTable
    /\ logs = <<>>
    /\ pc = "email"
    /\ source = ""
    /\ cleaning_options = {}
    /\ loop = <<>>
    /\ widget = NoWidget
    /\ errors = {}
    /\ report = NoReport
    /\ shown = <<>>
    /\ writes = 0
    /\ loaded = 0
    /\ vals \in {ExampleEmails} \cup {<<S(t)>> : t \in Texts(MaxLen)}
    /\ found = 0

\* lines 171-173 on the column vals
ValidateEmail ==
    /\ pc = "email"
    /\ found' = InvalidEmails(vals)
    /\ pc' = "checked"
    /\ UNCHANGED <<df, logs, source, cleaning_options, loop, widget, errors, report, shown,
                   writes, loaded, vals>>

NextEmail == ValidateEmail

SpecEmail == InitEmail /\ [][NextEmail]_vars

-----------------------------------------------------------------------------
(* Properties *)

ColIndex(name) == CHOOSE j \in 1..Len(ColNames) : ColNames[j] = name

LastEntry == logs[Len(logs)]

FillTreatments == {"Fill with mean", "Fill with median", "Fill with mode"}

CleaningSteps == {"dedupe", "missing", "missing_col", "types", "types_col", "text", "text_col"}

\* C1: a null cell of the validated column is never counted: the count the email
\* check reports is the number of non-null values that do not match the pattern,
\* and the count the range check reports is the number of non-null values outside
\* [min, max].
C1_NullsNotCounted ==
    (pc = "logs" /\ report.col # "") =>
        LET col == Column(df, ColIndex(report.col))
            rows == 1..Len(col)
        IN  /\ report.email # <<>> =>
                  report.email[1] = Cardinality({i \in rows :
                        ~isna(col[i]) /\ ~(col[i].k = "str" /\ EmailMatch(col[i].s))})
            /\ report.range # <<>> =>
                  report.range[1] = Cardinality({i \in rows :
                        /\ ~isna(col[i])
                        /\ \/ NumLess(col[i], IntCell(report.min))
                           \/ NumLess(IntCell(report.max), col[i])})

\* C2: after 'Fill with mean', 'Fill with median' or 'Fill with mode' is applied to
\* a column, the column holds no null and every cell that was non-null holds the
\* value it held before; also when the column had no non-null value.
C2_FillLeavesNoNull ==
    [][(pc = "missing_col" /\ pc' # "crashed" /\ widget'.value \in FillTreatments) =>
          LET j == Head(loop)
          IN  /\ Len(df'.rows) = Len(df.rows)
              /\ \A i \in 1..Len(df.rows) :
                    /\ ~isna(df'.rows[i][j])
                    /\ ~isna(df.rows[i][j]) => df'.rows[i][j] = df.rows[i][j]]_vars

\* C3: the table changes only by a sub-operation the user selected: the rows are
\* deduplicated only when the user ticked the confirmation, a missing-value
\* treatment changes the table only when the user chose a treatment for that
\* column, and selecting a category alone changes nothing.
C3_OnlyWhenSelected ==
    [][/\ (pc = "dedupe" /\ df' # df) => widget'.set
       /\ (pc = "missing_col" /\ ~widget'.set) => df' = df
       /\ pc \in {"missing", "types", "text"} => df' = df]_vars

\* the positions of the rows that equal no earlier row
FirstOccurrences(rows) == {i \in 1..Len(rows) : \A j \in 1..(i - 1) : rows[j] # rows[i]}

\* C4: a committed deduplication leaves exactly the first occurrence of each
\* distinct row, in the original order; no two rows of the result are equal; the
\* number of rows removed is the number logged; deduplicating again removes nothing.
C4_DedupeFirstOccurrences ==
    [][(pc = "dedupe" /\ writes' # writes) =>
          /\ df'.rows = Filter(df.rows, FirstOccurrences(df.rows))
          /\ \A i, j \in 1..Len(df'.rows) : i # j => df'.rows[i] # df'.rows[j]
          /\ logs'[Len(logs')].msg = "Removed duplicate rows"
          /\ IntCell(Len(df.rows) - Len(df'.rows)) = logs'[Len(logs')].value
          /\ drop_duplicates(df') = df'
          /\ df'.dtypes = df.dtypes]_vars

C4_Witness ==
    /\ pc = "missing"
    /\ writes = 1
    /\ LastEntry.msg = "Removed duplicate rows"
    /\ LastEntry.value = IntCell(2)
    /\ df.rows = << <<Null, Null>>, <<N(1), S(<<"a">>)>> >>

\* C5: when the conversion of a column fails, the table and the log stay as they
\* were, the error is shown for that column, and the loop goes on to the next
\* column, whose conversion is committed and logged if it succeeds.
C5_FailedConversionIsolated ==
    [][(pc = "types_col" /\ errors' # errors) =>
          /\ df' = df
          /\ logs' = logs
          /\ errors' = errors \cup {ColNames[Head(loop)]}
          /\ loop' = Tail(loop)
          /\ pc' = IF loop' = <<>> THEN "text" ELSE "types_col"]_vars

C5_Witness ==
    /\ pc = "text"
    /\ errors = {ColNames[1]}
    /\ LastEntry.msg = "Converted"
    /\ LastEntry.col = ColNames[2]
    /\ df.dtypes[1] = "object"
    /\ df.dtypes[2] = "string"

\* C6: the sidebar shows the min(10, n) most recently appended entries of the
\* n-entry log, the most recent first; appending and showing leave the entries
\* already in the log in place and unchanged.
C6_LastTenMostRecentFirst ==
    [][/\ pc = "logs" =>
             /\ Len(shown') = (IF Len(logs) < 10 THEN Len(logs) ELSE 10)
             /\ \A i \in 1..Len(shown') : shown'[i] = logs[Len(logs) + 1 - i]
       /\ Len(logs') >= Len(logs)
       /\ SubSeq(logs', 1, Len(logs)) = logs]_vars

C6_Witness ==
    /\ pc = "idle"
    /\ Len(logs) = 12
    /\ Len(shown) = 10
    /\ shown[1] = logs[12]
    /\ shown[10] = logs[3]

\* C7: every step of the cleaning section appends exactly as many log entries as
\* it stores tables into the session state: one per committed sub-operation, none
\* for one that failed or was not selected; the table changes only by a store.
C7_OneEntryPerCommit ==
    [][(pc \in CleaningSteps) =>
          /\ Len(logs') - Len(logs) = writes' - writes
          /\ (df' # df) => (writes < writes')]_vars

C7_Witness ==
    /\ pc = "validate"
    /\ writes = 4
    /\ errors # {}
    /\ Len(logs) = 5
    /\ loaded = 1

\* C8: the validation section leaves the table and the log as they were and never
\* fails.
C8_ValidationReadOnlyNeverFails ==
    [][pc = "validate" => (df' = df /\ logs' = logs /\ pc' # "crashed")]_vars

\* local part, '@', domain, '.', label: local part and domain of letters, digits,
\* '_', '.', '-', the label of letters, digits, '_'; one final newline is allowed
EmailShape(s) ==
    LET e == IF s # <<>> /\ s[Len(s)] = "\n" THEN Len(s) - 1 ELSE Len(s)
    IN  \E p, q \in 1..e :
           /\ s[p] = "@" /\ s[q] = "."
           /\ 1 < p /\ p + 1 < q /\ q < e
           /\ \A i \in 1..(p - 1) : IsLocal(s[i])
           /\ \A i \in (p + 1)..(q - 1) : IsLocal(s[i])
           /\ \A i \in (q + 1)..e : IsWord(s[i])

PartsNoWhitespace(s) ==
    /\ \A i \in 1..Len(s) : s[i] \notin Space
    /\ \E p, q \in 1..Len(s) : s[p] = "@" /\ s[q] = "." /\ 1 < p /\ p + 1 < q /\ q < Len(s)

C10_EveryRunStartsFromSource ==
    loaded = 1 =>
        /\ Len(logs) > writes
        /\ logs[Len(logs) - writes].msg \in LoadMsgs
        /\ logs[Len(logs) - writes].col = source
        /\ pc = "options" => (df = SourceTable(source) /\ writes = 0)

C10_Witness ==
    /\ pc = "options"
    /\ loaded = 1
    /\ df = SourceTable(source)
    /\ \E i \in 1..(Len(logs) - 1) : logs[i].msg \notin LoadMsgs

====
